---- MODULE Spec2Model ----
(***************************************************************************)
(* Model of mkdocs-swagger-ui-tag (src/mkdocs_swagger_ui_tag/plugin.py):   *)
(* the SwaggerUIPlugin hooks on_pre_page / on_post_page and the helpers    *)
(* path_to_url, process_options, process_oath2_prop, replace_with_iframe   *)
(* and the nested render_template.                                         *)
(*                                                                         *)
(* Text is a sequence of lexemes (one-character strings, or whole words    *)
(* where the code never looks inside them).  A Python dict is a sequence   *)
(* of <<key, value>> pairs in insertion order.  Python values are tagged   *)
(* records [k |-> kind, v |-> payload].                                    *)
(***************************************************************************)
EXTENDS Integers, Sequences, FiniteSets, TLC

VARIABLES
    config,   \* self.config (plugin options) and the host config (site_dir, theme)
    site,     \* the build's pages and its files collection (host side)
    files,    \* self.files, set by on_pre_page
    built,    \* pages on_post_page has been called for in this build
    fs,       \* fragment files on disk: set of [path, content]
    writes,   \* every open(...,"w")/write made so far, with what was rendered
    call,     \* the last hook call: its inputs, the disk before it, its outcome
    probe     \* the last direct call of a helper: its inputs and its outcome

vars == <<config, site, files, built, fs, writes, call, probe>>

-----------------------------------------------------------------------------
(* Python values *)

\* LET v == x IN F(v), with x evaluated once
Bind(x, F(_)) == CHOOSE r \in {F(v) : v \in {x}} : TRUE

None == [k |-> "none", v |-> <<>>]
Str(t) == [k |-> "str", v |-> t]
Bool(b) == [k |-> "bool", v |-> b]
PyInt(n) == [k |-> "int", v |-> n]
List(s) == [k |-> "list", v |-> s]
Dict(p) == [k |-> "dict", v |-> p]

(* dict helpers: a dict is a sequence of <<key, value>> pairs *)
Keys(d) == {d[i][1] : i \in 1..Len(d)}
HasKey(d, key) == \E i \in 1..Len(d) : d[i][1] = key
Get(d, key) == d[CHOOSE i \in 1..Len(d) : d[i][1] = key][2]
RECURSIVE Without(_, _)
Without(d, key) ==
    IF d = <<>> THEN <<>>
    ELSE IF Head(d)[1] = key THEN Without(Tail(d), key)
    ELSE <<Head(d)>> \o Without(Tail(d), key)
\* d[key] = val: an existing key keeps its place, a new one goes last
Put(d, key, val) ==
    IF HasKey(d, key)
    THEN [i \in 1..Len(d) |-> IF d[i][1] = key THEN <<key, val>> ELSE d[i]]
    ELSE Append(d, <<key, val>>)

-----------------------------------------------------------------------------
(* str methods *)

Min(S) == CHOOSE x \in S : \A y \in S : x <= y
Max(S) == CHOOSE x \in S : \A y \in S : x >= y

\* s.replace(a, b) for one-lexeme a and b
Replace(s, a, b) == [i \in 1..Len(s) |-> IF s[i] = a THEN b ELSE s[i]]

LowerLexeme(c) ==
    CASE c = "TRUE" -> "true"
      [] c = "True" -> "true"
      [] c = "FALSE" -> "false"
      [] c = "HTTPS" -> "https"
      [] OTHER -> c
\* s.lower()
Lower(s) == [i \in 1..Len(s) |-> LowerLexeme(s[i])]

\* s.strip()
Strip(s) ==
    LET keep == {i \in 1..Len(s) : s[i] # " "}
    IN  IF keep = {} THEN <<>> ELSE SubSeq(s, Min(keep), Max(keep))

StartsWith(s, c) == Len(s) >= 1 /\ s[1] = c
Contains(s, c) == \E i \in 1..Len(s) : s[i] = c

\* k.lower() for the option and OAuth2 keys (and the names authors write)
LowerName(n) ==
    CASE n = "docExpansion" -> "docexpansion"
      [] n = "DOCEXPANSION" -> "docexpansion"
      [] n = "syntaxHighlightTheme" -> "syntaxhighlighttheme"
      [] n = "tryItOutEnabled" -> "tryitoutenabled"
      [] n = "oauth2RedirectUrl" -> "oauth2redirecturl"
      [] n = "supportedSubmitMethods" -> "supportedsubmitmethods"
      [] n = "validatorUrl" -> "validatorurl"
      [] n = "defaultModelsExpandDepth" -> "defaultmodelsexpanddepth"
      [] n = "clientId" -> "clientid"
      [] n = "clientSecret" -> "clientsecret"
      [] n = "appName" -> "appname"
      [] n = "additionalQueryStringParams" -> "additionalquerystringparams"
      [] n = "useBasicAuthenticationWithAccessCodeGrant"
            -> "usebasicauthenticationwithaccesscodegrant"
      [] n = "usePkceWithAuthorizationCodeGrant"
            -> "usepkcewithauthorizationcodegrant"
      [] n = "SWAGGER-UI" -> "swagger-ui"
      [] n = "DIV" -> "div"
      [] n = "SRC" -> "src"
      [] OTHER -> n

-----------------------------------------------------------------------------
(* json.loads on a text *)

JsonFail == [ok |-> FALSE, v |-> None, i |-> 0]
JsonOk(val, next) == [ok |-> TRUE, v |-> val, i |-> next]

\* index of the first lexeme at or after i that is not white space
SkipWs(s, i) == Min({j \in i..(Len(s) + 1) : j = Len(s) + 1 \/ s[j] # " "})

IsDigit(c) == c \in {"0", "1", "2"}

JsonString(s, i) ==
    LET close == {j \in (i + 1)..Len(s) : s[j] = "\""}
    IN  IF close = {} THEN JsonFail
        ELSE JsonOk(Str(SubSeq(s, i + 1, Min(close) - 1)), Min(close) + 1)

JsonNumber(s, i) ==
    LET stop == Min({j \in i..(Len(s) + 1) : j = Len(s) + 1 \/ ~IsDigit(s[j])})
    IN  JsonOk([k |-> "num", v |-> SubSeq(s, i, stop - 1)], stop)

RECURSIVE JsonValue(_, _), JsonElems(_, _, _), JsonMembers(_, _, _)
JsonValue(s, i) ==
    Bind(SkipWs(s, i), LAMBDA j :
        IF j > Len(s) THEN JsonFail
        ELSE IF s[j] = "\"" THEN JsonString(s, j)
        ELSE IF s[j] = "[" THEN
            (LET n == SkipWs(s, j + 1)
             IN  IF n <= Len(s) /\ s[n] = "]" THEN JsonOk(List(<<>>), n + 1)
                 ELSE JsonElems(s, j + 1, <<>>))
        ELSE IF s[j] = "{" THEN
            (LET n == SkipWs(s, j + 1)
             IN  IF n <= Len(s) /\ s[n] = "}" THEN JsonOk(Dict(<<>>), n + 1)
                 ELSE JsonMembers(s, j + 1, <<>>))
        ELSE IF IsDigit(s[j]) THEN JsonNumber(s, j)
        ELSE IF s[j] = "true" THEN JsonOk(Bool(TRUE), j + 1)
        ELSE IF s[j] = "false" THEN JsonOk(Bool(FALSE), j + 1)
        ELSE IF s[j] = "null" THEN JsonOk(None, j + 1)
        ELSE JsonFail)
JsonElems(s, i, acc) ==
    Bind(JsonValue(s, i), LAMBDA r :
        IF ~r.ok THEN JsonFail
        ELSE Bind(SkipWs(s, r.i), LAMBDA n :
                 IF n > Len(s) THEN JsonFail
                 ELSE IF s[n] = "," THEN JsonElems(s, n + 1, Append(acc, r.v))
                 ELSE IF s[n] = "]" THEN JsonOk(List(Append(acc, r.v)), n + 1)
                 ELSE JsonFail))
JsonMembers(s, i, acc) ==
    Bind(SkipWs(s, i), LAMBDA j :
        IF j > Len(s) \/ s[j] # "\"" THEN JsonFail
        ELSE Bind(JsonString(s, j), LAMBDA key :
            IF ~key.ok THEN JsonFail
            ELSE Bind(SkipWs(s, key.i), LAMBDA c :
                IF c > Len(s) THEN JsonFail
                ELSE IF s[c] # ":" THEN JsonFail
                ELSE Bind(JsonValue(s, c + 1), LAMBDA r :
                    IF ~r.ok THEN JsonFail
                    ELSE Bind(SkipWs(s, r.i), LAMBDA n :
                        IF n > Len(s) THEN JsonFail
                        ELSE IF s[n] = "," THEN
                            JsonMembers(s, n + 1, Put(acc, key.v.v, r.v))
                        ELSE IF s[n] = "}" THEN
                            JsonOk(Dict(Put(acc, key.v.v, r.v)), n + 1)
                        ELSE JsonFail)))))

\* json.loads(s): [ok, v]; ok = FALSE stands for JSONDecodeError
json_loads(s) ==
    Bind(JsonValue(s, 1), LAMBDA r :
        IF r.ok /\ SkipWs(s, r.i) > Len(s) THEN r ELSE JsonFail)

-----------------------------------------------------------------------------
(* config_scheme and the configurations of the model *)

\* config_scheme: the option keys in declaration order, with their defaults
config_scheme ==
    << <<"background", Str(<<>>)>>,
       <<"docExpansion", Str(<<"list">>)>>,
       <<"filter", Bool(FALSE)>>,
       <<"syntaxHighlightTheme", Str(<<"agate">>)>>,
       <<"tryItOutEnabled", Bool(FALSE)>>,
       <<"oauth2RedirectUrl", None>>,
       <<"supportedSubmitMethods",
         List(<<Str(<<"get">>), Str(<<"put">>), Str(<<"post">>),
                Str(<<"delete">>), Str(<<"options">>), Str(<<"head">>),
                Str(<<"patch">>), Str(<<"trace">>)>>)>>,
       <<"validatorUrl", Str(<<"none">>)>>,
       <<"extra_css", List(<<>>)>>,
       <<"dark_scheme_name", Str(<<"slate">>)>>,
       <<"filter_files", List(<<>>)>>,
       <<"defaultModelsExpandDepth", PyInt(1)>> >>

SchemeKeys == Keys(config_scheme)

\* a mkdocs.yml that sets some of the options
RichOptions ==
    Put(Put(Put(Put(config_scheme,
        "background", Str(<<"#", "fff">>)),
        "oauth2RedirectUrl", Str(<<"https", ":", "/", "/", "h", "/", "cb">>)),
        "extra_css", List(<<Str(<<"css", "/", "x", ".", "css">>)>>)),
        "docExpansion", Str(<<"none">>))

\* filter_files as an author writes it: not necessarily normalised
FilterSome ==
    <<Str(<<".", "/", "index", ".", "md">>),
      Str(<<"guide", "/", "/", "api", ".", "md">>)>>

SiteDir == <<"/", "site">>

\* the plugin's options (self.config) with the host's site_dir and theme name
Config(opts, filter_files, theme) ==
    [plugin |-> Put(opts, "filter_files", List(filter_files)),
     theme |-> theme,
     site_dir |-> SiteDir]

Configs ==
    { Config(config_scheme, <<>>, "mkdocs"),
      Config(RichOptions, FilterSome, "material") }

-----------------------------------------------------------------------------
(* elements: [tag, attrs, text]; attrs is a sequence of <<name, value>> *)

Element(tag, attrs) == [tag |-> tag, attrs |-> attrs, text |-> <<>>]

has_attr(ele, name) == \E i \in 1..Len(ele.attrs) : ele.attrs[i][1] = name
\* ele.get(name, None): None when the attribute is absent
ele_get(ele, name) ==
    IF has_attr(ele, name)
    THEN Str(ele.attrs[Max({i \in 1..Len(ele.attrs) : ele.attrs[i][1] = name})][2])
    ELSE None
\* ele.get(name, default)
ele_get_default(ele, name, default) ==
    IF has_attr(ele, name) THEN ele_get(ele, name) ELSE default

-----------------------------------------------------------------------------
(* process_options *)

skip_option_keys == {"background", "custom_css_files"}

RECURSIVE FilterKeys(_, _)
FilterKeys(d, skip) ==
    IF d = <<>> THEN <<>>
    ELSE IF Head(d)[1] \in skip THEN FilterKeys(Tail(d), skip)
    ELSE <<Head(d)>> \o FilterKeys(Tail(d), skip)

global_options(self_config) == FilterKeys(self_config, skip_option_keys)

\* variant: a bad override falls back to the global default
SubmitMethodsFallback(global, val) ==
    Bind(json_loads(Replace(val.v, "'", "\"")), LAMBDA r :
        IF r.ok /\ r.v.k = "list"
        THEN [v |-> r.v, warnings |-> 0]
        ELSE [v |-> Get(global, "supportedSubmitMethods"), warnings |-> 2])

\* the try/except of the supportedSubmitMethods attribute: the parsed list,
\* or None (with two warnings) when the text does not parse to a list
SubmitMethodsOverride(global, val) ==
    Bind(json_loads(Replace(val.v, "'", "\"")), LAMBDA r :
        IF r.ok /\ r.v.k = "list"
        THEN [v |-> r.v, warnings |-> 0]
        ELSE [v |-> None, warnings |-> 2])

\* one turn of the loop over options_keys: acc is [options, warnings]
OptionStep(acc, global, ele, key) ==
    Bind(ele_get(ele, LowerName(key)), LAMBDA val :
    Bind(IF val.k # "none"
         THEN IF key = "supportedSubmitMethods"
              THEN SubmitMethodsOverride(global, val)
              ELSE [v |-> val, warnings |-> 0]
         ELSE [v |-> Get(global, key), warnings |-> 0], LAMBDA res :
        [options |-> IF res.v.k = "none"
                     THEN Without(Put(acc.options, key, res.v), key)
                     ELSE Put(acc.options, key, res.v),
         warnings |-> acc.warnings + res.warnings]))

RECURSIVE OptionLoop(_, _, _, _)
OptionLoop(acc, global, ele, i) ==
    IF i > Len(global) THEN acc
    ELSE OptionLoop(OptionStep(acc, global, ele, global[i][1]), global, ele, i + 1)

RenameTheme(opts) ==
    IF HasKey(opts, "syntaxHighlightTheme")
    THEN Append(Without(opts, "syntaxHighlightTheme"),
                <<"syntaxHighlight.theme", Get(opts, "syntaxHighlightTheme")>>)
    ELSE opts

\* process_options(config, swagger_ui_ele): [options, warnings]
process_options(self_config, ele) ==
    Bind(OptionLoop([options |-> <<>>, warnings |-> 0],
                    global_options(self_config), ele, 1), LAMBDA looped :
        [options |-> RenameTheme(looped.options), warnings |-> looped.warnings])

-----------------------------------------------------------------------------
(* process_oath2_prop *)

oath_prop_keys ==
    <<"clientId", "clientSecret", "realm", "appName", "scopes",
      "additionalQueryStringParams",
      "useBasicAuthenticationWithAccessCodeGrant",
      "usePkceWithAuthorizationCodeGrant">>

OathStep(acc, ele, key) ==
    Bind(ele_get(ele, LowerName(key)), LAMBDA val :
        IF val.k = "none" THEN acc
        ELSE IF key = "additionalQueryStringParams" THEN
            Bind(json_loads(Replace(val.v, "'", "\"")), LAMBDA r :
                IF r.ok /\ r.v.k = "dict"
                THEN [acc EXCEPT !.prop = Put(@, key, r.v)]
                ELSE [acc EXCEPT !.warnings = @ + 2])
        ELSE IF key \in {"useBasicAuthenticationWithAccessCodeGrant",
                         "usePkceWithAuthorizationCodeGrant"}
        THEN [acc EXCEPT !.prop = Put(@, key, Bool(Strip(Lower(val.v)) = <<"true">>))]
        ELSE [acc EXCEPT !.prop = Put(@, key, val)])

RECURSIVE OathLoop(_, _, _)
OathLoop(acc, ele, i) ==
    IF i > Len(oath_prop_keys) THEN acc
    ELSE OathLoop(OathStep(acc, ele, oath_prop_keys[i]), ele, i + 1)

\* process_oath2_prop(swagger_ui_ele): [prop, warnings]
process_oath2_prop(ele) == OathLoop([prop |-> <<>>, warnings |-> 0], ele, 1)

-----------------------------------------------------------------------------
(* os.path (posix) and urllib.parse on texts *)

FirstIndex(s, c) == Min({i \in 1..Len(s) : s[i] = c})
LastIndex(s, c) == Max({i \in 1..Len(s) : s[i] = c})
From(s, i) == SubSeq(s, i, Len(s))

RECURSIVE Split(_, _)
\* s.split(sep)
Split(s, sep) ==
    IF ~Contains(s, sep) THEN <<s>>
    ELSE <<SubSeq(s, 1, FirstIndex(s, sep) - 1)>>
         \o Split(From(s, FirstIndex(s, sep) + 1), sep)

RECURSIVE Join(_, _)
\* sep.join(parts)
Join(parts, sep) ==
    IF parts = <<>> THEN <<>>
    ELSE IF Len(parts) = 1 THEN parts[1]
    ELSE parts[1] \o <<sep>> \o Join(Tail(parts), sep)

RECURSIVE LStrip(_, _)
\* s.lstrip(c)
LStrip(s, c) == IF StartsWith(s, c) THEN LStrip(Tail(s), c) ELSE s

RECURSIVE RStrip(_, _)
\* s.rstrip(c)
RStrip(s, c) ==
    IF s # <<>> /\ s[Len(s)] = c THEN RStrip(SubSeq(s, 1, Len(s) - 1), c) ELSE s

\* os.path.split(p)[-1]
basename(p) == IF Contains(p, "/") THEN From(p, LastIndex(p, "/") + 1) ELSE p

\* os.path.dirname(p)
dirname(p) ==
    LET head == IF Contains(p, "/") THEN SubSeq(p, 1, LastIndex(p, "/")) ELSE <<>>
    IN  IF head # <<>> /\ (\E i \in 1..Len(head) : head[i] # "/")
        THEN RStrip(head, "/") ELSE head

\* os.path.join(a, b)
path_join(a, b) ==
    IF StartsWith(b, "/") THEN b
    ELSE IF a = <<>> \/ a[Len(a)] = "/" THEN a \o b
    ELSE a \o <<"/">> \o b

RECURSIVE NormComps(_, _, _)
\* the loop of posixpath.normpath over the components
NormComps(comps, initial_slashes, new_comps) ==
    IF comps = <<>> THEN new_comps
    ELSE LET comp == Head(comps)
         IN  IF comp = <<>> \/ comp = <<".">>
             THEN NormComps(Tail(comps), initial_slashes, new_comps)
             ELSE IF \/ comp # <<".", ".">>
                     \/ (initial_slashes = 0 /\ new_comps = <<>>)
                     \/ (new_comps # <<>> /\ new_comps[Len(new_comps)] = <<".", ".">>)
             THEN NormComps(Tail(comps), initial_slashes, Append(new_comps, comp))
             ELSE IF new_comps # <<>>
             THEN NormComps(Tail(comps), initial_slashes,
                            SubSeq(new_comps, 1, Len(new_comps) - 1))
             ELSE NormComps(Tail(comps), initial_slashes, new_comps)

\* os.path.normpath(path)
normpath(path) ==
    IF path = <<>> THEN <<".">>
    ELSE Bind(IF ~StartsWith(path, "/") THEN 0
              ELSE IF Len(path) >= 2 /\ path[2] = "/"
                      /\ ~(Len(path) >= 3 /\ path[3] = "/") THEN 2
              ELSE 1, LAMBDA initial_slashes :
         Bind([i \in 1..initial_slashes |-> "/"]
              \o Join(NormComps(Split(path, "/"), initial_slashes, <<>>), "/"),
              LAMBDA out : IF out = <<>> THEN <<".">> ELSE out))

UnquoteLexeme(c) ==
    CASE c = "%2F" -> "/"
      [] c = "%2E" -> "."
      [] OTHER -> c
\* urllib.parse.unquote
urlunquote(s) == [i \in 1..Len(s) |-> UnquoteLexeme(s[i])]

\* the lexemes that are letters (str.isalpha) and those allowed in a scheme
AlphaLexemes == {"a", "b", "h", "x", "api", "guide", "json", "https", "HTTPS", "mailto"}
scheme_chars == AlphaLexemes \cup {"0", "1", "2", "+", "-", "."}

AMP_SUBSTITUTE == "\\x02amp\\x03"

\* s.partition(c)[0] and s.partition(c)[2]
Before(s, c) == IF Contains(s, c) THEN SubSeq(s, 1, FirstIndex(s, c) - 1) ELSE s
After(s, c) == IF Contains(s, c) THEN From(s, FirstIndex(s, c) + 1) ELSE <<>>

\* urlsplit(url): ok = FALSE stands for ValueError("Invalid IPv6 URL")
urlsplit(url) ==
    Bind(/\ Contains(url, ":")
         /\ FirstIndex(url, ":") > 1
         /\ url[1] \in AlphaLexemes
         /\ \A i \in 1..(FirstIndex(url, ":") - 1) : url[i] \in scheme_chars,
         LAMBDA hasScheme :
    Bind(IF hasScheme THEN From(url, FirstIndex(url, ":") + 1) ELSE url,
         LAMBDA rest1 :
    Bind(Len(rest1) >= 2 /\ rest1[1] = "/" /\ rest1[2] = "/", LAMBDA hasNetloc :
    Bind(IF hasNetloc
         THEN Min({i \in 3..(Len(rest1) + 1) :
                     i = Len(rest1) + 1 \/ rest1[i] \in {"/", "?", "#"}})
         ELSE 1, LAMBDA delim :
    Bind(IF hasNetloc THEN SubSeq(rest1, 3, delim - 1) ELSE <<>>, LAMBDA netloc :
    Bind(IF hasNetloc THEN From(rest1, delim) ELSE rest1, LAMBDA rest2 :
    Bind(Before(rest2, "#"), LAMBDA rest3 :
        [ok |-> ~(\/ (Contains(netloc, "[") /\ ~Contains(netloc, "]"))
                  \/ (Contains(netloc, "]") /\ ~Contains(netloc, "["))),
         scheme |-> IF hasScheme
                    THEN Lower(SubSeq(url, 1, FirstIndex(url, ":") - 1)) ELSE <<>>,
         netloc |-> netloc,
         path |-> Before(rest3, "?"),
         query |-> After(rest3, "?"),
         fragment |-> After(rest2, "#")])))))))

\* urlunsplit((scheme, netloc, path, query, fragment)) for an empty scheme
\* and netloc, as path_to_url calls it
urlunsplit(path, query, fragment) ==
    path \o (IF query # <<>> THEN <<"?">> \o query ELSE <<>>)
         \o (IF fragment # <<>> THEN <<"#">> \o fragment ELSE <<>>)

\* mkdocs.utils._norm_parts
norm_parts(path) ==
    Bind(Tail(normpath(IF StartsWith(path, "/") THEN path ELSE <<"/">> \o path)),
         LAMBDA p : IF p = <<>> THEN <<>> ELSE Split(p, "/"))

\* mkdocs.utils.get_relative_url(url, other)
get_relative_url(url, other) ==
    Bind(norm_parts(IF Contains(basename(other), ".")
                    THEN (IF Contains(other, "/")
                          THEN SubSeq(other, 1, LastIndex(other, "/") - 1) ELSE <<>>)
                    ELSE other), LAMBDA other_parts :
    Bind(norm_parts(url), LAMBDA dest_parts :
    Bind(Max({c \in 0..Min({Len(other_parts), Len(dest_parts)}) :
                \A i \in 1..c : other_parts[i] = dest_parts[i]}), LAMBDA common :
    Bind([i \in 1..(Len(other_parts) - common) |-> <<".", ".">>]
         \o SubSeq(dest_parts, common + 1, Len(dest_parts)), LAMBDA rel_parts :
        (IF rel_parts = <<>> THEN <<".">> ELSE Join(rel_parts, "/"))
        \o (IF url # <<>> /\ url[Len(url)] = "/" THEN <<"/">> ELSE <<>>)))))

-----------------------------------------------------------------------------
(* path_to_url *)

\* target_path in self.files
InFiles(fileset, target_path) == \E f \in fileset : f.src_path = target_path
\* self.files.get_file_from_path(target_path)
get_file_from_path(fileset, target_path) ==
    CHOOSE f \in fileset : f.src_path = target_path

\* the guard of lines 86-94: the url is not a relative link to a source file
NotRelativeFile(url, parts) ==
    \/ parts.scheme # <<>>
    \/ parts.netloc # <<>>
    \/ parts.path = <<>>
    \/ StartsWith(url, "/")
    \/ StartsWith(url, "\\")
    \/ Contains(url, AMP_SUBSTITUTE)
    \/ ~Contains(basename(parts.path), ".")

\* lines 101-104
TargetPath(page_file, path) ==
    LStrip(normpath(path_join(dirname(page_file.src_path), urlunquote(path))), "/")

\* path_to_url(page_file, url) with self.files = fileset:
\* [kind, url, exc, warnings]
path_to_url(fileset, page_file, url) ==
    Bind(urlsplit(url), LAMBDA parts :
        IF ~parts.ok
        THEN [kind |-> "raised", url |-> <<>>, exc |-> "ValueError", warnings |-> 0]
        ELSE IF NotRelativeFile(url, parts)
        THEN [kind |-> "returned", url |-> url, exc |-> "none", warnings |-> 0]
        ELSE Bind(TargetPath(page_file, parts.path), LAMBDA target_path :
            IF ~InFiles(fileset, target_path)
            THEN [kind |-> "returned", url |-> url, exc |-> "none", warnings |-> 1]
            ELSE [kind |-> "returned",
                  url |-> urlunsplit(
                              get_relative_url(
                                  get_file_from_path(fileset, target_path).url,
                                  page_file.url),
                              parts.query, parts.fragment),
                  exc |-> "none", warnings |-> 0]))

-----------------------------------------------------------------------------
(* json.dumps *)

RECURSIVE json_dumps(_), DumpItems(_), DumpMembers(_)
\* json.dumps(x) of a value
json_dumps(x) ==
    CASE x.k = "str" -> <<"\"">> \o x.v \o <<"\"">>
      [] x.k = "bool" -> IF x.v THEN <<"true">> ELSE <<"false">>
      [] x.k = "none" -> <<"null">>
      [] x.k = "int" -> <<ToString(x.v)>>
      [] x.k = "num" -> x.v
      [] x.k = "list" -> <<"[">> \o DumpItems(x.v) \o <<"]">>
      [] x.k = "dict" -> <<"{">> \o DumpMembers(x.v) \o <<"}">>
DumpItems(items) ==
    IF items = <<>> THEN <<>>
    ELSE json_dumps(items[1])
         \o (IF Len(items) > 1 THEN <<",", " ">> \o DumpItems(Tail(items)) ELSE <<>>)
\* the members of a parsed JSON object: its keys are texts
DumpMembers(d) ==
    IF d = <<>> THEN <<>>
    ELSE <<"\"">> \o d[1][1] \o <<"\"", ":", " ">> \o json_dumps(d[1][2])
         \o (IF Len(d) > 1 THEN <<",", " ">> \o DumpMembers(Tail(d)) ELSE <<>>)

RECURSIVE DumpPairs(_)
\* the members of a dict the plugin builds: its keys are the names in the code
DumpPairs(d) ==
    IF d = <<>> THEN <<>>
    ELSE <<"\"", d[1][1], "\"", ":", " ">> \o json_dumps(d[1][2])
         \o (IF Len(d) > 1 THEN <<",", " ">> \o DumpPairs(Tail(d)) ELSE <<>>)
\* json.dumps(d) of a dict the plugin builds
json_dumps_dict(d) == <<"{">> \o DumpPairs(d) \o <<"}">>

RECURSIVE DumpSpecs(_)
DumpSpecs(l) ==
    IF l = <<>> THEN <<>>
    ELSE json_dumps_dict(l[1])
         \o (IF Len(l) > 1 THEN <<",", " ">> \o DumpSpecs(Tail(l)) ELSE <<>>)
\* openapi_spec_url as the template receives it: one url, or the list of
\* {url, name} dicts of a group
SpecText(spec) ==
    IF spec.k = "urls" THEN <<"[">> \o DumpSpecs(spec.v) \o <<"]">>
    ELSE json_dumps(spec)

-----------------------------------------------------------------------------
(* the fragment: template.render, the content hash, the file *)

ID_PLACEHOLDER == "{{ID_PLACEHOLDER}}"

RECURSIVE Flatten(_)
Flatten(texts) == IF texts = <<>> THEN <<>> ELSE Head(texts) \o Flatten(Tail(texts))

\* template.render(...): the document swagger.html yields from its arguments
template_render(p) ==
    <<"<html ", "css_dir=">> \o p.css_dir
    \o <<" extra_css_files=">> \o Flatten(p.extra_css_files)
    \o <<" js_dir=">> \o p.js_dir
    \o <<" background=">> \o p.background
    \o <<" id=", p.id>>
    \o <<" openapi_spec_url=">> \o SpecText(p.openapi_spec_url)
    \o <<" oauth2_redirect_url=">> \o p.oauth2_redirect_url
    \o <<" validatorUrl=">> \o p.validatorUrl
    \o <<" options=">> \o p.options_str
    \o <<" oauth=">> \o p.oath2_prop_str
    \o <<" update_swagger_ui_iframe_height(", p.id, ")", "</html>">>

IdLen == 8
HexDigit == <<"0", "1", "2", "3", "4", "5", "6", "7",
              "8", "9", "a", "b", "c", "d", "e", "f">>

\* the lexemes a fragment can hold, for the digest
Alphabet ==
    <<"none", "str", "bool", "int", "list", "dict", "TRUE", "true", "True",
      "FALSE", "false", "HTTPS", "https", " ", "docExpansion",
      "docexpansion", "DOCEXPANSION", "syntaxHighlightTheme",
      "syntaxhighlighttheme", "tryItOutEnabled", "tryitoutenabled",
      "oauth2RedirectUrl", "oauth2redirecturl", "supportedSubmitMethods",
      "supportedsubmitmethods", "validatorUrl", "validatorurl",
      "defaultModelsExpandDepth", "defaultmodelsexpanddepth", "clientId",
      "clientid", "clientSecret", "clientsecret", "appName", "appname",
      "additionalQueryStringParams", "additionalquerystringparams",
      "useBasicAuthenticationWithAccessCodeGrant",
      "usebasicauthenticationwithaccesscodegrant",
      "usePkceWithAuthorizationCodeGrant",
      "usepkcewithauthorizationcodegrant", "SWAGGER-UI", "swagger-ui", "DIV",
      "div", "SRC", "src", "0", "1", "2", "\"", "num", "[", "]", "{", "}",
      "null", ",", ":", "background", "filter", "agate", "get", "put",
      "post", "delete", "options", "head", "patch", "trace", "extra_css",
      "dark_scheme_name", "slate", "filter_files", "#", "fff", "/", "h",
      "cb", "css", "x", ".", "index", "md", "guide", "api", "site", "mkdocs",
      "material", "custom_css_files", "'", "syntaxHighlight.theme", "realm",
      "scopes", "%2F", "%2E", "a", "b", "json", "mailto", "+", "-",
      "\\x02amp\\x03", "?", "\\", "raised", "ValueError", "returned", "urls",
      "{{ID_PLACEHOLDER}}", "<html ", "css_dir=", " extra_css_files=",
      " js_dir=", " background=", " id=", " openapi_spec_url=",
      " oauth2_redirect_url=", " validatorUrl=", " options=", " oauth=",
      " update_swagger_ui_iframe_height(", ")", "</html>", "3", "4", "5",
      "6", "7", "8", "9", "c", "d", "e", "f", "swagger-", "html",
      "(extracted)", "iframe", "id", "frameborder", "style", "display:none;",
      "width", "100%", "class", "swagger-ui-iframe", "onload",
      "this.style.display = 'block'; ...",
      "window.update_swagger_ui_iframe_height = ...",
      "document.addEventListener('scroll', ...)", "script",
      "document$.subscribe(() => {", "const dark_scheme_name = ",
      "new MutationObserver(color_scheme_callback)", "})", "assets",
      "stylesheets", "javascripts", "oauth2-redirect", "full", "OSError",
      "grouped", "name", "url", "AttributeError", "about", "A", "y",
      "on_pre_page", "ok", "on_post_page", "missing", "path_to_url", "nord",
      "process_options", "process_oath2_prop">>
LexemeCode == [c \in {Alphabet[i] : i \in 1..Len(Alphabet)} |->
                 CHOOSE i \in 1..Len(Alphabet) : Alphabet[i] = c]
Code(c) == LexemeCode[c]

\* one round of the digest: two 16-bit halves, each a polynomial in the
\* codes of the lexemes read
Mix(d, c) == <<(d[1] * 31 + c) % 65521, (d[2] * 37 + c + d[1]) % 65519>>

RECURSIVE DigestRun(_, _, _, _)
\* the rounds for text[i..last]
DigestRun(text, i, last, d) ==
    IF i > last \/ d = <<>> THEN d
    ELSE DigestRun(text, i + 1, last, Mix(d, Code(text[i])))

RECURSIVE DigestFrom(_, _, _)
\* the rounds for text[i..], sixteen lexemes at a time
DigestFrom(text, i, d) ==
    IF i > Len(text) \/ d = <<>> THEN d
    ELSE DigestFrom(text, i + 16,
                    DigestRun(text, i, IF i + 15 < Len(text) THEN i + 15 ELSE Len(text), d))

\* hexdigest()[:8] of a digest: four hex digits of each half
HexOf(d) ==
    [i \in 1..IdLen |->
        HexDigit[((d[IF i <= 4 THEN 1 ELSE 2] \div (16 ^ ((i - 1) % 4))) % 16) + 1]]

\* hashlib.sha256(text.encode()).hexdigest()[:8]: a deterministic digest of
\* IdLen hex digits (a finite range: distinct texts can share a digest)
Sha256Prefix(text) == HexOf(DigestFrom(text, 1, <<7, 11>>))

RECURSIVE ReplaceText(_, _, _)
\* text.replace(lexeme, by)
ReplaceText(text, lexeme, by) ==
    IF text = <<>> THEN <<>>
    ELSE IF Len(text) = 1 THEN (IF text[1] = lexeme THEN by ELSE text)
    ELSE ReplaceText(SubSeq(text, 1, Len(text) \div 2), lexeme, by)
         \o ReplaceText(SubSeq(text, Len(text) \div 2 + 1, Len(text)), lexeme, by)

\* f"swagger-{cur_id}.html"
iframe_filename(cur_id) == <<"swagger-">> \o cur_id \o <<".", "html">>

\* page_dir, lines 164-166
page_dir(cfg, page) == dirname(path_join(cfg.site_dir, urlunquote(page.url)))

\* open(path, "w").write(content) on the set of files
write_file(disk, path, content) ==
    {f \in disk : f.path # path} \cup {[path |-> path, content |-> content]}

-----------------------------------------------------------------------------
(* documents: [hasBody, nodes] *)

Removed == [tag |-> "(extracted)", attrs |-> <<>>, text |-> <<>>]

\* BeautifulSoup(output, "html.parser"): tag and attribute names in lower case
ParseNode(n) ==
    [tag |-> LowerName(n.tag),
     attrs |-> [i \in 1..Len(n.attrs) |-> <<LowerName(n.attrs[i][1]), n.attrs[i][2]>>],
     text |-> n.text]
Parse(output) == [i \in 1..Len(output.nodes) |-> ParseNode(output.nodes[i])]

RECURSIVE Present(_)
Present(nodes) ==
    IF nodes = <<>> THEN <<>>
    ELSE (IF Head(nodes) = Removed THEN <<>> ELSE <<Head(nodes)>>) \o Present(Tail(nodes))
\* str(soup)
Serialise(hasBody, nodes) == [hasBody |-> hasBody, nodes |-> Present(nodes)]

RECURSIVE IndicesOf(_, _, _)
IndicesOf(nodes, tag, i) ==
    IF i > Len(nodes) THEN <<>>
    ELSE (IF nodes[i].tag = tag THEN <<i>> ELSE <<>>) \o IndicesOf(nodes, tag, i + 1)
\* soup.find_all("swagger-ui"): positions in document order
find_all(nodes, tag) == IndicesOf(nodes, tag, 1)

\* the iframe of replace_with_iframe
Iframe(cur_id, filename) ==
    Element("iframe",
            << <<"id", cur_id>>, <<"src", filename>>, <<"frameborder", <<"0">>>>,
               <<"style", <<"display:none;">>>>, <<"width", <<"100%">>>>,
               <<"class", <<"swagger-ui-iframe">>>>,
               <<"onload", <<"this.style.display = 'block'; ...">>>> >>)

\* replace_with_iframe(soup, swagger_ui_ele, cur_id, iframe_filename)
replace_with_iframe(nodes, idx, cur_id, filename) ==
    [nodes EXCEPT ![idx] = Iframe(cur_id, filename)]

\* the script of lines 226-306
js_code(cfg) ==
    LET common == <<"window.update_swagger_ui_iframe_height = ...",
                    "document.addEventListener('scroll', ...)">>
    IN  [tag |-> "script", attrs |-> <<>>,
         text |-> IF cfg.theme = "material"
                  THEN <<"document$.subscribe(() => {">> \o common
                       \o <<"const dark_scheme_name = ">>
                       \o Get(cfg.plugin, "dark_scheme_name").v
                       \o <<"new MutationObserver(color_scheme_callback)", "})">>
                  ELSE common]

-----------------------------------------------------------------------------
(* on_post_page *)

\* mkdocs.utils.normalize_url(path) as on_post_page calls it (no page, no base)
normalize_url(path) == IF path = <<>> THEN <<".">> ELSE Replace(path, "\\", "/")

\* variant: filter_files read as a deny-list
FilterBypassListed(self_config, page) ==
    \E i \in 1..Len(Get(self_config, "filter_files").v) :
        normpath(Get(self_config, "filter_files").v[i].v) = normpath(page.src_path)

\* lines 126-129: the page is not in a non-empty filter_files
FilterBypass(self_config, page) ==
    LET filter_list == Get(self_config, "filter_files").v
    IN  /\ filter_list # <<>>
        /\ \A i \in 1..Len(filter_list) :
              normpath(filter_list[i].v) # normpath(page.src_path)

\* the arguments of template.render, lines 171-188
RenderParams(cfg, page, spec, options, oath2_prop) ==
    Bind(json_dumps_dict(Without(options, "oauth2RedirectUrl")), LAMBDA dumped :
        [css_dir |-> get_relative_url(
                         normalize_url(<<"assets", "/", "stylesheets", "/">>), page.url),
         extra_css_files |->
             [i \in 1..Len(Get(cfg.plugin, "extra_css").v) |->
                 get_relative_url(normalize_url(Get(cfg.plugin, "extra_css").v[i].v),
                                  page.url)],
         js_dir |-> get_relative_url(
                        normalize_url(<<"assets", "/", "javascripts", "/">>), page.url),
         background |-> Get(cfg.plugin, "background").v,
         id |-> ID_PLACEHOLDER,
         openapi_spec_url |-> spec,
         oauth2_redirect_url |->
             IF HasKey(options, "oauth2RedirectUrl")
                /\ Get(options, "oauth2RedirectUrl").v # <<>>
             THEN Get(options, "oauth2RedirectUrl").v
             ELSE get_relative_url(
                      normalize_url(<<"assets", "/", "swagger-ui", "/",
                                      "oauth2-redirect", ".", "html">>), page.url),
         validatorUrl |-> Get(cfg.plugin, "validatorUrl").v,
         options_str |-> SubSeq(dumped, 2, Len(dumped) - 1),
         oath2_prop_str |-> json_dumps_dict(oath2_prop)])

\* variant: the identifier also depends on how many fragments the page has
FragmentIdByCount(st, template_output) ==
    Sha256Prefix(template_output \o <<ToString(Len(st.iframe_id_list))>>)

\* cur_id, line 189
FragmentId(st, template_output) == Sha256Prefix(template_output)

\* variant: every fragment goes to the site root
FragmentPathInSiteDir(cfg, page, cur_id) ==
    path_join(cfg.site_dir, iframe_filename(cur_id))

\* the path open() gets, line 192
FragmentPath(cfg, page, cur_id) ==
    path_join(page_dir(cfg, page), iframe_filename(cur_id))

\* render_template(openapi_spec_url, swagger_ui_ele): env holds what the
\* closure captures, st what it changes
render_template(st, env, spec, idx) ==
    Bind(process_options(env.cfg.plugin, env.soup[idx]), LAMBDA o :
    Bind(process_oath2_prop(env.soup[idx]), LAMBDA a :
    Bind(template_render(RenderParams(env.cfg, env.page, spec, o.options, a.prop)),
         LAMBDA template_output :
    Bind(FragmentId(st, template_output), LAMBDA cur_id :
    Bind(FragmentPath(env.cfg, env.page, cur_id), LAMBDA path :
    Bind(ReplaceText(template_output, ID_PLACEHOLDER, cur_id), LAMBDA content :
        IF env.disk = "full"
        THEN [st EXCEPT !.exc = "OSError",
                        !.warnings = @ + o.warnings + a.warnings]
        ELSE [st EXCEPT
                 !.fs = write_file(@, path, content),
                 !.written = @ \cup {[page |-> env.page,
                                      dir |-> page_dir(env.cfg, env.page),
                                      path |-> path, id |-> cur_id,
                                      content |-> content, spec |-> spec,
                                      options |-> o.options, oauth |-> a.prop,
                                      fresh |-> ~\E f \in st.fs : f.path = path]},
                 !.nodes = replace_with_iframe(@, idx, cur_id, iframe_filename(cur_id)),
                 !.warnings = @ + o.warnings + a.warnings,
                 !.cur_id = cur_id]))))))

\* one turn of the loop of lines 197-209
StandaloneStep(st, env, idx) ==
    IF has_attr(env.soup[idx], "grouped")
    THEN [st EXCEPT !.grouped_list = Append(@, idx)]
    ELSE Bind(path_to_url(env.fileset, env.page,
                          ele_get_default(env.soup[idx], "src", Str(<<>>)).v),
              LAMBDA r :
             IF r.kind = "raised" THEN [st EXCEPT !.exc = r.exc]
             ELSE Bind(render_template([st EXCEPT !.warnings = @ + r.warnings],
                                       env, Str(r.url), idx), LAMBDA done :
                      IF done.exc # "none" THEN done
                      ELSE [done EXCEPT !.iframe_id_list = Append(@, done.cur_id)]))

RECURSIVE StandaloneLoop(_, _, _, _)
StandaloneLoop(st, env, swagger_ui_list, i) ==
    IF i > Len(swagger_ui_list) \/ st.exc # "none" THEN st
    ELSE Bind(StandaloneStep(st, env, swagger_ui_list[i]), LAMBDA next :
             StandaloneLoop(next, env, swagger_ui_list, i + 1))

\* cur_name, line 215
GroupedName(ele) == ele_get_default(ele, "name", ele_get_default(ele, "src", Str(<<>>)))

RECURSIVE GroupedUrls(_, _, _, _)
\* the loop of lines 213-216: acc is [urls, warnings, exc]
GroupedUrls(acc, env, grouped_list, i) ==
    IF i > Len(grouped_list) \/ acc.exc # "none" THEN acc
    ELSE Bind(path_to_url(env.fileset, env.page,
                          ele_get_default(env.soup[grouped_list[i]], "src",
                                          Str(<<>>)).v), LAMBDA r :
             IF r.kind = "raised" THEN [acc EXCEPT !.exc = r.exc]
             ELSE GroupedUrls(
                      [acc EXCEPT
                          !.urls = Append(@, << <<"url", Str(r.url)>>,
                                                <<"name", GroupedName(
                                                    env.soup[grouped_list[i]])>> >>),
                          !.warnings = @ + r.warnings],
                      env, grouped_list, i + 1))

\* variant: the group is rendered with the last grouped element
GroupOptionsLast(grouped_list) == grouped_list[Len(grouped_list)]

\* the element render_template gets for the group, line 220
GroupOptionsElement(grouped_list) == grouped_list[1]

\* variant: the grouped elements after the first stay in the document
ExtractNone(nodes, grouped_list) == nodes

\* lines 223-224: every grouped element but the first is extracted
ExtractRest(nodes, grouped_list) ==
    [i \in 1..Len(nodes) |->
        IF \E j \in 2..Len(grouped_list) : grouped_list[j] = i
        THEN Removed ELSE nodes[i]]

\* lines 211-224
GroupedBlock(st, env) ==
    Bind(GroupedUrls([urls |-> <<>>, warnings |-> 0, exc |-> "none"],
                     env, st.grouped_list, 1), LAMBDA u :
        IF u.exc # "none" THEN [st EXCEPT !.exc = u.exc]
        ELSE Bind(render_template([st EXCEPT !.warnings = @ + u.warnings], env,
                                  [k |-> "urls", v |-> u.urls],
                                  GroupOptionsElement(st.grouped_list)), LAMBDA done :
                 IF done.exc # "none" THEN done
                 ELSE [done EXCEPT !.nodes = ExtractRest(@, st.grouped_list)]))

Outcome(kind, exc, html, disk, written, warnings, processed) ==
    [kind |-> kind, exc |-> exc, html |-> html, fs |-> disk,
     written |-> written, warnings |-> warnings, processed |-> processed]

NoDoc == [hasBody |-> FALSE, nodes |-> <<>>]

\* variant: the early return hands back the re-serialised soup
UnchangedReparsed(output, soup) == Serialise(output.hasBody, soup)

\* the early return of line 136: the input string itself, not str(soup)
Unchanged(output, soup) == output

\* lines 138-309, once swagger_ui_list is known not to be empty
Transform(cfg, fileset, disk, fs0, output, page, soup, swagger_ui_list) ==
    Bind([cfg |-> cfg, page |-> page, fileset |-> fileset,
          disk |-> disk, soup |-> soup], LAMBDA env :
    Bind(StandaloneLoop([nodes |-> soup, fs |-> fs0, written |-> {}, warnings |-> 0,
                         iframe_id_list |-> <<>>, grouped_list |-> <<>>,
                         cur_id |-> <<>>, exc |-> "none"],
                        env, swagger_ui_list, 1), LAMBDA st1 :
    Bind(IF st1.exc = "none" /\ st1.grouped_list # <<>>
         THEN GroupedBlock(st1, env) ELSE st1, LAMBDA st2 :
        \* soup.body.append: soup.body is None without a body element
        IF st2.exc # "none"
        THEN Outcome("raised", st2.exc, NoDoc, st2.fs, st2.written, st2.warnings, TRUE)
        ELSE IF ~output.hasBody
        THEN Outcome("raised", "AttributeError", NoDoc,
                     st2.fs, st2.written, st2.warnings, TRUE)
        ELSE Outcome("returned", "none",
                     Serialise(output.hasBody, Append(st2.nodes, js_code(cfg))),
                     st2.fs, st2.written, st2.warnings, TRUE))))

\* on_post_page(output, page=page, config=config) with self.files = fileset
\* and the disk in state `disk` ("ok", or "full": every write fails)
on_post_page(cfg, fileset, disk, fs0, output, page) ==
    IF FilterBypass(cfg.plugin, page)
    THEN Outcome("returned", "none", output, fs0, {}, 0, FALSE)
    ELSE Bind(Parse(output), LAMBDA soup :
         Bind(find_all(soup, "swagger-ui"), LAMBDA swagger_ui_list :
             IF Len(swagger_ui_list) = 0
             THEN Outcome("returned", "none", Unchanged(output, soup), fs0, {}, 0, FALSE)
             ELSE Transform(cfg, fileset, disk, fs0, output, page, soup,
                            swagger_ui_list)))

-----------------------------------------------------------------------------
(* the host: sites, pages, documents *)

File(src_path, url) == [src_path |-> src_path, url |-> url]

PageIndex == File(<<"index", ".", "md">>, <<"index", ".", "html">>)
PageAbout == File(<<"about", ".", "md">>, <<"about", ".", "html">>)
PageGuide == File(<<"guide", "/", "index", ".", "md">>, <<"guide", "/">>)
PageApi == File(<<"guide", "/", "api", ".", "md">>, <<"guide", "/", "api", "/">>)

\* use_directory_urls: false, both pages in the site root
FlatSite ==
    [pages |-> {PageIndex, PageAbout},
     files |-> {PageIndex, PageAbout,
                File(<<"a", ".", "json">>, <<"a", ".", "json">>),
                File(<<"api", "/", "b", ".", "json">>, <<"api", "/", "b", ".", "json">>)}]
\* use_directory_urls: true, each page in a directory of its own
TreeSite ==
    [pages |-> {PageGuide, PageApi},
     files |-> {PageGuide, PageApi,
                File(<<"guide", "/", "a", ".", "json">>, <<"guide", "/", "a", ".", "json">>),
                File(<<"api", "/", "b", ".", "json">>, <<"api", "/", "b", ".", "json">>)}]
Sites == {FlatSite, TreeSite}

\* embed tags as authors write them (names in any case)
TagPlain == Element("swagger-ui", << <<"src", <<"a", ".", "json">>>> >>)
TagClient ==
    Element("swagger-ui", << <<"src", <<"a", ".", "json">>>>, <<"clientId", <<"x">>>> >>)
TagGroupA ==
    Element("swagger-ui",
            << <<"grouped", <<>>>>, <<"src", <<"a", ".", "json">>>>,
               <<"name", <<"A">>>>, <<"docExpansion", <<"full">>>> >>)
TagGroupB ==
    Element("swagger-ui",
            << <<"grouped", <<>>>>, <<"src", <<"api", "%2F", "b", ".", "json">>>>,
               <<"clientid", <<"y">>>> >>)
TagBadSrc == Element("SWAGGER-UI", << <<"SRC", <<"/", "/", "[", "x">>>> >>)
Tags == {TagPlain, TagClient, TagGroupA, TagGroupB, TagBadSrc}

DivNode == Element("DIV", <<>>)

\* embed tags in the pages of one build
MaxTags == 3

SeqsUpTo(S, n) == UNION {[1..k -> S] : k \in 0..n}

\* the tags of the longer pages
GroupTrio == {TagPlain, TagGroupA, TagGroupB}

\* page HTML with at most n embed tags after other markup: any two of Tags,
\* or more of GroupTrio; a page without a body element holds at most one
Docs(n) ==
    { [hasBody |-> TRUE, nodes |-> <<DivNode>> \o tags]
      : tags \in SeqsUpTo(Tags, Min({n, 2}))
                 \cup {t \in SeqsUpTo(GroupTrio, n) : Len(t) > 2} }
    \cup { [hasBody |-> FALSE, nodes |-> tags] : tags \in SeqsUpTo(Tags, Min({n, 1})) }

NumTags(doc) == Len(find_all(Parse(doc), "swagger-ui"))

RECURSIVE SumTags(_)
SumTags(S) ==
    IF S = {} THEN 0
    ELSE LET b == CHOOSE b \in S : TRUE IN b.tags + SumTags(S \ {b})

-----------------------------------------------------------------------------
(* the state machine *)

NoPage == File(<<>>, <<>>)
NoCall ==
    [op |-> "none", page |-> NoPage, output |-> NoDoc, before |-> {},
     result |-> Outcome("none", "none", NoDoc, {}, {}, 0, FALSE)]
NoProbe == [fn |-> "none", page |-> NoPage, arg |-> <<>>, out |-> <<>>]

Init ==
    /\ config \in Configs
    /\ site \in Sites
    /\ files = [loaded |-> FALSE, index |-> {}]
    /\ built = {}
    /\ fs = {}
    /\ writes = {}
    /\ call = NoCall
    /\ probe = NoProbe

\* on_pre_page(page, config, files): the host populates every page before it
\* builds any
OnPrePage ==
    \E page \in site.pages :
        /\ built = {}
        /\ files' = [loaded |-> TRUE, index |-> site.files]
        /\ call' = [NoCall EXCEPT !.op = "on_pre_page", !.page = page]
        /\ UNCHANGED <<config, site, built, fs, writes, probe>>

\* on_post_page(output, page, config): once per page of the build, and none
\* after a hook raised (the build is aborted)
OnPostPage ==
    \E page \in site.pages, disk \in {"ok", "full"} :
        /\ files.loaded
        /\ call.result.kind # "raised"
        /\ \A b \in built : b.page # page
        /\ \E output \in Docs(MaxTags - SumTags(built)) :
           \E r \in {on_post_page(config, files.index, disk, fs, output, page)} :
              /\ call' = [op |-> "on_post_page", page |-> page,
                          output |-> output, before |-> fs, result |-> r]
              /\ fs' = r.fs
              /\ writes' = writes \cup r.written
              /\ built' = built \cup {[page |-> page, tags |-> NumTags(output)]}
        /\ UNCHANGED <<config, site, files, probe>>

Next == OnPrePage \/ OnPostPage

Spec == Init /\ [][Next]_vars

-----------------------------------------------------------------------------
(* path_to_url called directly *)

UrlRelative == <<"a", ".", "json">>
UrlQueryFragment == <<"a", ".", "json", "?", "x", "#", "b">>
UrlEmptyFragment == <<"a", ".", "json", "#">>
UrlMissing == <<"missing", ".", "json">>
UrlQuoted == <<"api", "%2F", "b", ".", "json">>
UrlParent == <<".", ".", "/", "api", "/", "b", ".", "json">>
UrlExternal == <<"https", ":", "/", "/", "h", "/", "a", ".", "json">>
UrlNetloc == <<"/", "/", "h", "/", "a", ".", "json">>
UrlAbsolute == <<"/", "a", ".", "json">>
UrlBackslash == <<"\\", "a", ".", "json">>
UrlEmail == <<AMP_SUBSTITUTE, "a", ".", "json">>
UrlMailto == <<"mailto", ":", "x">>
UrlNoExtension == <<"api", "/", "b">>
UrlEmpty == <<>>
UrlFragmentOnly == <<"#", "b">>
UrlBadBracket == <<"/", "/", "[", "x">>
UrlBadBracketScheme == <<"https", ":", "/", "/", "[", "x", "/", "a", ".", "json">>

\* the references path_to_url is given
Urls ==
    {UrlRelative, UrlQueryFragment, UrlEmptyFragment, UrlMissing, UrlQuoted,
     UrlParent, UrlExternal, UrlNetloc, UrlAbsolute, UrlBackslash, UrlEmail,
     UrlMailto, UrlNoExtension, UrlEmpty, UrlFragmentOnly, UrlBadBracket,
     UrlBadBracketScheme}

InitUrl ==
    /\ config = Config(config_scheme, <<>>, "mkdocs")
    /\ site \in Sites
    /\ files = [loaded |-> FALSE, index |-> {}]
    /\ built = {}
    /\ fs = {}
    /\ writes = {}
    /\ call = NoCall
    /\ probe = NoProbe

\* self.path_to_url(page_file, url), once on_pre_page has set self.files
PathToUrl ==
    \E page \in site.pages, url \in Urls :
        /\ files.loaded
        /\ probe' = [fn |-> "path_to_url", page |-> page, arg |-> url,
                     out |-> path_to_url(files.index, page, url)]
        /\ UNCHANGED <<config, site, files, built, fs, writes, call>>

NextUrl == OnPrePage \/ PathToUrl

SpecUrl == InitUrl /\ [][NextUrl]_vars

-----------------------------------------------------------------------------
(* process_options and process_oath2_prop called directly *)

\* a mkdocs.yml that narrows the submit methods and sets the other options
NarrowOptions ==
    Put(Put(Put(Put(config_scheme,
        "supportedSubmitMethods", List(<<Str(<<"get">>)>>)),
        "tryItOutEnabled", Bool(TRUE)),
        "filter", Bool(TRUE)),
        "defaultModelsExpandDepth", PyInt(0))

\* a mkdocs.yml with an empty redirect URL and another syntax theme
PlainOptions ==
    Put(Put(Put(config_scheme,
        "oauth2RedirectUrl", Str(<<>>)),
        "syntaxHighlightTheme", Str(<<"nord">>)),
        "docExpansion", Str(<<"full">>))

\* a mkdocs.yml with two style sheets and a validator
StyledOptions ==
    Put(Put(Put(config_scheme,
        "extra_css", List(<<Str(<<"css", "/", "x", ".", "css">>),
                            Str(<<"/", "y", ".", "css">>)>>)),
        "validatorUrl", Str(<<"https", ":", "/", "/", "h">>)),
        "supportedSubmitMethods", List(<<>>))

OptionConfigs ==
    Configs \cup { Config(NarrowOptions, <<>>, "mkdocs"),
                   Config(PlainOptions, <<>>, "mkdocs"),
                   Config(StyledOptions, <<>>, "material") }

SwaggerUi(attrs) == Element("swagger-ui", <<<<"src", <<"a", ".", "json">>>>>> \o attrs)

\* tags as authors write them
OptionTags ==
    { SwaggerUi(<<>>),
      SwaggerUi(<< <<"docExpansion", <<"full">>>> >>),
      SwaggerUi(<< <<"DOCEXPANSION", <<"none">>>>, <<"filter", <<>>>> >>),
      SwaggerUi(<< <<"syntaxHighlightTheme", <<"nord">>>>,
                   <<"tryItOutEnabled", <<"true">>>> >>),
      SwaggerUi(<< <<"oauth2RedirectUrl", <<"/", "cb">>>>,
                   <<"validatorUrl", <<"https", ":", "/", "/", "h">>>> >>),
      SwaggerUi(<< <<"defaultModelsExpandDepth", <<"2">>>> >>),
      SwaggerUi(<< <<"supportedSubmitMethods",
                     <<"[", "'", "get", "'", ",", " ", "'", "post", "'", "]">>>> >>),
      SwaggerUi(<< <<"supportedsubmitmethods", <<"[", "\"", "put", "\"", "]">>>> >>),
      SwaggerUi(<< <<"supportedSubmitMethods", <<"[", "]">>>> >>),
      SwaggerUi(<< <<"supportedSubmitMethods", <<"get">>>> >>),
      SwaggerUi(<< <<"supportedSubmitMethods", <<"[", "'", "get", "'", ",", "]">>>> >>),
      SwaggerUi(<< <<"supportedSubmitMethods",
                     <<"{", "'", "a", "'", ":", " ", "1", "}">>>> >>),
      SwaggerUi(<< <<"supportedSubmitMethods", <<"null">>>> >>),
      SwaggerUi(<< <<"supportedSubmitMethods", <<>>>>,
                   <<"docExpansion", <<"full">>>> >>) }

OathTags ==
    { SwaggerUi(<<>>),
      SwaggerUi(<< <<"clientId", <<"x">>>>, <<"clientSecret", <<"y">>>> >>),
      SwaggerUi(<< <<"realm", <<"a">>>>, <<"appName", <<"b">>>>,
                   <<"scopes", <<"a", " ", "b">>>> >>),
      SwaggerUi(<< <<"useBasicAuthenticationWithAccessCodeGrant", <<"TRUE">>>> >>),
      SwaggerUi(<< <<"useBasicAuthenticationWithAccessCodeGrant", <<"false">>>>,
                   <<"usePkceWithAuthorizationCodeGrant", <<" ", "True", " ">>>> >>),
      SwaggerUi(<< <<"usePkceWithAuthorizationCodeGrant", <<"1">>>> >>),
      SwaggerUi(<< <<"additionalQueryStringParams",
                     <<"{", "'", "a", "'", ":", " ", "'", "b", "'", "}">>>> >>),
      SwaggerUi(<< <<"additionalQueryStringParams", <<"[", "1", "]">>>>,
                   <<"clientId", <<"x">>>> >>),
      SwaggerUi(<< <<"additionalQueryStringParams", <<"a">>>> >>) }

InitOptions ==
    /\ config \in OptionConfigs
    /\ site = FlatSite
    /\ files = [loaded |-> FALSE, index |-> {}]
    /\ built = {}
    /\ fs = {}
    /\ writes = {}
    /\ call = NoCall
    /\ probe = NoProbe

\* self.process_options(config, swagger_ui_ele) on an element of the parsed page
ProcessOptions ==
    \E tag \in OptionTags :
        /\ probe' = [fn |-> "process_options", page |-> NoPage, arg |-> ParseNode(tag),
                     out |-> process_options(config.plugin, ParseNode(tag))]
        /\ UNCHANGED <<config, site, files, built, fs, writes, call>>

\* self.process_oath2_prop(swagger_ui_ele) on an element of the parsed page
ProcessOath2Prop ==
    \E tag \in OathTags :
        /\ probe' = [fn |-> "process_oath2_prop", page |-> NoPage, arg |-> ParseNode(tag),
                     out |-> process_oath2_prop(ParseNode(tag))]
        /\ UNCHANGED <<config, site, files, built, fs, writes, call>>

NextOptions == ProcessOptions \/ ProcessOath2Prop

SpecOptions == InitOptions /\ [][NextOptions]_vars

-----------------------------------------------------------------------------
(* what the properties below read off a call *)

IsSwaggerUi(n) == n.tag = "swagger-ui"
IsGrouped(n) == has_attr(n, "grouped")
IsStandalone(n) == ~has_attr(n, "grouped")

\* the embed tags of a page in document order, as the parser hands them over
EmbedTags(doc) == SelectSeq(Parse(doc), IsSwaggerUi)
GroupedTags(doc) == SelectSeq(EmbedTags(doc), IsGrouped)
StandaloneTags(doc) == SelectSeq(EmbedTags(doc), IsStandalone)

CountNodes(doc, tag) ==
    Cardinality({i \in 1..Len(doc.nodes) : doc.nodes[i].tag = tag})

FilterList(cfg) == Get(cfg.plugin, "filter_files").v
\* the page's normalised source path is in the normalised filter_files
Listed(cfg, page) ==
    \E i \in 1..Len(FilterList(cfg)) :
        normpath(FilterList(cfg)[i].v) = normpath(page.src_path)
\* on_post_page goes on to look for tags
Admitted(cfg, page) == FilterList(cfg) = <<>> \/ Listed(cfg, page)

PostPage == call.op = "on_post_page"
Returned == call.result.kind = "returned"

SameValue(x, y) == x.k = y.k /\ x.v = y.v

\* the directory each page is written to under site_dir
OutputDir(page) ==
    CASE page = PageIndex -> <<"/", "site">>
      [] page = PageAbout -> <<"/", "site">>
      [] page = PageGuide -> <<"/", "site", "/", "guide">>
      [] page = PageApi -> <<"/", "site", "/", "guide", "/", "api">>

-----------------------------------------------------------------------------
(* C1 *)

\* C1: for a page whose HTML holds no swagger-ui tag, on_post_page returns the
\* input HTML unchanged, writes no fragment file and appends no script block,
\* under every configuration.
C1_ZeroTagIdentity ==
    (PostPage /\ EmbedTags(call.output) = <<>>) =>
        /\ Returned
        /\ call.result.html = call.output
        /\ call.result.written = {}
        /\ call.result.fs = call.before
        /\ CountNodes(call.result.html, "script") = 0

\* C1 witness: a page with other markup and no embed tag went through
\* on_post_page while fragments of an earlier page were on disk.
C1_Witness ==
    /\ PostPage
    /\ EmbedTags(call.output) = <<>>
    /\ call.output.nodes # <<>>
    /\ call.before # {}
    /\ call.result.html = call.output

-----------------------------------------------------------------------------
(* C2 *)

\* C2: a page with S standalone and G grouped embed tags (S + G >= 1) that
\* on_post_page processes and returns holds exactly S + (1 if G > 0 else 0)
\* iframe nodes and no swagger-ui node.
C2_IframeCount ==
    (/\ PostPage
     /\ Returned
     /\ Admitted(config, call.page)
     /\ EmbedTags(call.output) # <<>>) =>
        /\ CountNodes(call.result.html, "iframe")
              = Len(StandaloneTags(call.output))
                + (IF GroupedTags(call.output) # <<>> THEN 1 ELSE 0)
        /\ CountNodes(call.result.html, "swagger-ui") = 0

\* C2 witness: three tags of which two are grouped came back as two iframes.
C2_Witness ==
    /\ PostPage
    /\ Returned
    /\ Len(StandaloneTags(call.output)) = 1
    /\ Len(GroupedTags(call.output)) = 2
    /\ CountNodes(call.result.html, "iframe") = 2

-----------------------------------------------------------------------------
(* C3 *)

IsHexId(id) ==
    /\ Len(id) = IdLen
    /\ \A i \in 1..Len(id) : \E j \in 1..Len(HexDigit) : id[i] = HexDigit[j]

\* C3 as stated: no two fragments rendered for different pages or for
\* different tag occurrences are ever written to the same output path, so
\* every write goes to a path no earlier write has used.
C3_Original == \A w \in writes : w.fresh

\* C3 amended: a fragment's path is the page's output directory joined with
\* "swagger-<8 hex digits>.html"; two writes land on the same path exactly
\* when they share the output directory and the identifier, and fragments
\* with identical rendered content in one directory share one path.
C3_PathByDirAndId ==
    \A w \in writes :
        /\ w.dir = OutputDir(w.page)
        /\ IsHexId(w.id)
        /\ w.path = w.dir \o <<"/", "swagger-">> \o w.id \o <<".", "html">>
        /\ \A v \in writes :
            /\ (v.path = w.path) <=> (v.dir = w.dir /\ v.id = w.id)
            /\ (v.dir = w.dir /\ v.content = w.content) => v.path = w.path

\* C3 witness: fragments of two different pages were written to one path,
\* the later one over the earlier, and a third page wrote elsewhere.
C3_Witness ==
    \E w \in writes : \E v \in writes :
        /\ w.page # v.page
        /\ w.path = v.path
        /\ w.fresh
        /\ ~v.fresh

-----------------------------------------------------------------------------
(* C5 *)

\* C5: no exception propagates out of on_post_page except an I/O error
\* raised while writing a fragment file.
C5_OnlyWriteErrorsPropagate ==
    (PostPage /\ call.result.kind = "raised") => call.result.exc = "OSError"

-----------------------------------------------------------------------------
(* C6 *)

\* C6: with a non-empty filter_files, a page whose normalised source path is
\* not listed comes back unchanged before any tag is looked at (no fragment,
\* no warning, no exception, whatever its tags); with an empty filter_files
\* every page that holds an embed tag is processed.
C6_FilterBypass ==
    PostPage =>
        /\ (FilterList(config) # <<>> /\ ~Listed(config, call.page)) =>
              /\ Returned
              /\ call.result.html = call.output
              /\ call.result.written = {}
              /\ call.result.fs = call.before
              /\ call.result.warnings = 0
              /\ ~call.result.processed
        /\ (FilterList(config) = <<>> /\ EmbedTags(call.output) # <<>>) =>
              /\ call.result.processed
              /\ call.result.html # call.output

\* C6 witness: a page holding embed tags that is not in a non-empty
\* filter_files was handed back as it came.
C6_Witness ==
    /\ PostPage
    /\ FilterList(config) # <<>>
    /\ ~Listed(config, call.page)
    /\ EmbedTags(call.output) # <<>>
    /\ call.result.html = call.output
    /\ \E p \in built : p.page # call.page /\ Listed(config, p.page) /\ p.tags > 0

-----------------------------------------------------------------------------
(* C9 *)

SameSpec(w, v) == w.spec.k = v.spec.k /\ w.spec.v = v.spec.v

SameFragment(w, v) ==
    /\ w.id = v.id
    /\ w.content = v.content
    /\ w.path = v.path

-----------------------------------------------------------------------------
(* C10 *)

GroupWrites == {w \in call.result.written : w.spec.k = "urls"}

SrcOf(e) == IF has_attr(e, "src") THEN ele_get(e, "src").v ELSE <<>>

\* the {url, name} entry of one grouped tag
GroupEntry(e) ==
    << <<"url", Str(path_to_url(files.index, call.page, SrcOf(e)).url)>>,
       <<"name", IF has_attr(e, "name") THEN ele_get(e, "name") ELSE Str(SrcOf(e))>> >>

FirstGroupedIndex(doc) ==
    Min({i \in 1..Len(Parse(doc)) : IsSwaggerUi(Parse(doc)[i]) /\ IsGrouped(Parse(doc)[i])})

\* C10: when a processed page holds grouped tags, one fragment is rendered
\* for the whole group; it lists one {url, name} entry per grouped tag in
\* document order, the name falling back to the raw src; its options and
\* OAuth2 properties are those of the first grouped tag; the first grouped
\* tag is replaced by the iframe and the other grouped tags are removed.
C10_GroupedRender ==
    (/\ PostPage
     /\ Returned
     /\ Admitted(config, call.page)
     /\ GroupedTags(call.output) # <<>>) =>
        /\ Cardinality(GroupWrites) = 1
        /\ \A w \in GroupWrites :
            /\ w.spec.v = [i \in 1..Len(GroupedTags(call.output))
                              |-> GroupEntry(GroupedTags(call.output)[i])]
            /\ w.options
                  = process_options(config.plugin, GroupedTags(call.output)[1]).options
            /\ w.oauth = process_oath2_prop(GroupedTags(call.output)[1]).prop
            /\ call.result.html.nodes[FirstGroupedIndex(call.output)].tag = "iframe"
            /\ ele_get(call.result.html.nodes[FirstGroupedIndex(call.output)], "id").v
                  = w.id
            /\ ele_get(call.result.html.nodes[FirstGroupedIndex(call.output)], "src").v
                  = <<"swagger-">> \o w.id \o <<".", "html">>
        /\ CountNodes(call.result.html, "swagger-ui") = 0
        /\ Len(call.result.html.nodes)
              = Len(call.output.nodes) - (Len(GroupedTags(call.output)) - 1) + 1

\* C10 witness: a named grouped tag followed by an unnamed one was rendered
\* as one fragment whose second entry takes its name from the raw src.
C10_Witness ==
    /\ PostPage
    /\ Returned
    /\ GroupedTags(call.output) = <<ParseNode(TagGroupA), ParseNode(TagGroupB)>>
    /\ \E w \in GroupWrites :
        /\ Len(w.spec.v) = 2
        /\ w.spec.v[2]
              = << <<"url", Str(<<"api", "/", "b", ".", "json">>)>>,
                   <<"name", Str(<<"api", "%2F", "b", ".", "json">>)>> >>
        /\ Get(w.options, "docExpansion") = Str(<<"full">>)
        /\ w.oauth = <<>>

-----------------------------------------------------------------------------
(* C4 *)

\* the two keys the option resolver is described as leaving out
ExcludedKeys == {"background", "extra_css"}

\* the schema key an entry of the result stands for
SchemeKeyOf(k) == IF k = "syntaxHighlight.theme" THEN "syntaxHighlightTheme" ELSE k

\* tag attribute (lower-cased name) when present, otherwise the global default
Resolved(cfg, ele, key) ==
    IF has_attr(ele, LowerName(key))
    THEN IF key = "supportedSubmitMethods"
         THEN SubmitMethodsOverride(cfg, ele_get(ele, LowerName(key))).v
         ELSE ele_get(ele, LowerName(key))
    ELSE Get(cfg, key)

\* C4: the keys of process_options' result are the schema keys minus the
\* background colour and the custom-CSS list minus the keys whose resolved
\* value is None, and each remaining key holds the tag attribute when the
\* tag has it, otherwise the global default.
C4_ResolvedKeySet ==
    probe.fn = "process_options" =>
        /\ {SchemeKeyOf(k) : k \in Keys(probe.out.options)}
              = {k \in SchemeKeys \ ExcludedKeys :
                    Resolved(config.plugin, probe.arg, k).k # "none"}
        /\ \A k \in Keys(probe.out.options) :
              SameValue(Get(probe.out.options, k),
                        Resolved(config.plugin, probe.arg, SchemeKeyOf(k)))

-----------------------------------------------------------------------------
(* C7 *)

SubmitKey == "supportedSubmitMethods"

SubmitParsed(ele) ==
    json_loads(Replace(ele_get(ele, LowerName(SubmitKey)).v, "'", "\""))

\* C7: when a tag carries a supportedSubmitMethods attribute whose text,
\* single quotes replaced by double quotes, parses to a JSON list, the result
\* of process_options holds that list; when it fails to parse or parses to
\* something else, the key is absent from the result (not the global
\* default) and a warning is logged.
C7_SubmitMethodsOverride ==
    (probe.fn = "process_options" /\ has_attr(probe.arg, LowerName(SubmitKey))) =>
        IF SubmitParsed(probe.arg).ok /\ SubmitParsed(probe.arg).v.k = "list"
        THEN /\ HasKey(probe.out.options, SubmitKey)
             /\ SameValue(Get(probe.out.options, SubmitKey), SubmitParsed(probe.arg).v)
             /\ probe.out.warnings = 0
        ELSE /\ ~HasKey(probe.out.options, SubmitKey)
             /\ probe.out.warnings >= 1

\* C7 witness: under a configuration whose global list is not empty, an
\* override that does not parse to a list left the key out of the result.
C7_Witness ==
    /\ probe.fn = "process_options"
    /\ has_attr(probe.arg, LowerName(SubmitKey))
    /\ ~(SubmitParsed(probe.arg).ok /\ SubmitParsed(probe.arg).v.k = "list")
    /\ Get(config.plugin, SubmitKey).v # <<>>
    /\ ~HasKey(probe.out.options, SubmitKey)
    /\ probe.out.warnings = 2

-----------------------------------------------------------------------------
(* C8 *)

\* C8: path_to_url never fails; it returns the raw reference unchanged
\* unless the reference is a relative file reference whose normalised target
\* is in the file index; an unresolved target logs a warning and echoes the
\* input; a resolved one keeps the query string and the fragment.
C8_NeverFailsEchoOrResolve ==
    probe.fn = "path_to_url" =>
        /\ probe.out.kind = "returned"
        /\ IF /\ ~NotRelativeFile(probe.arg, urlsplit(probe.arg))
              /\ InFiles(files.index,
                         TargetPath(probe.page, urlsplit(probe.arg).path))
           THEN /\ urlsplit(probe.out.url).query = urlsplit(probe.arg).query
                /\ urlsplit(probe.out.url).fragment = urlsplit(probe.arg).fragment
                /\ probe.out.warnings = 0
           ELSE /\ probe.out.url = probe.arg
                /\ probe.out.warnings
                      = IF NotRelativeFile(probe.arg, urlsplit(probe.arg))
                        THEN 0 ELSE 1

====
